---- MODULE Spec2Model ----
(***************************************************************************)
(* update-cloudformation-stack: the run of the command in its two          *)
(* variants, the single-parameter one (src/main.go) and the                *)
(* multi-parameter one (src/unnamed/part_002).                             *)
(*                                                                         *)
(* Text the program dissects (argument lines, parameter keys and values)   *)
(* is a sequence of one-character strings; text it only compares (stack    *)
(* names, statuses, reasons, tokens) is a TLA+ string.                     *)
(***************************************************************************)
EXTENDS Integers, Sequences, FiniteSets, TLC

VARIABLES variant, pc, stackName, argKey, argValue, args, underGithub,
          inputParameters, overrides, toReplace, stack, updateReq, calls, token,
          oldEventsCutoff, tickReady, cancelled, stream, page,
          lastEvt, err, exit, logged, limits

vars == <<variant, pc, stackName, argKey, argValue, args, underGithub,
          inputParameters, overrides, toReplace, stack, updateReq, calls, token,
          oldEventsCutoff, tickReady, cancelled, stream, page,
          lastEvt, err, exit, logged, limits>>

(***************************************************************************)
(* Bounds of the model.                                                    *)
(***************************************************************************)
\* most lines on the command line
MaxArgs == 2
\* most parameters the described stack defines
MaxParams == 2
\* most events the backing system has emitted for the stack
MaxEvents == 2
\* most events the backing system puts on one page of DescribeStackEvents
PageSize == 2
\* the latest hour the clock can show when the update is submitted
MaxTime == 2

(***************************************************************************)
(* Text.                                                                   *)
(***************************************************************************)
Str(c) == <<c>>

\* byte value of a character, as Go's string comparison orders them
Code(c) ==
    CASE c = "\n" -> 10
      [] c = " " -> 32
      [] c = "=" -> 61
      [] c = "a" -> 97
      [] c = "b" -> 98
      [] c = "c" -> 99
      [] c = "x" -> 120
      [] c = "y" -> 121

IsSpace(c) == c = " " \/ c = "\n"

RECURSIVE TrimLeft(_)
TrimLeft(s) ==
    IF s # <<>> /\ IsSpace(Head(s)) THEN TrimLeft(Tail(s)) ELSE s

RECURSIVE TrimRight(_)
TrimRight(s) ==
    IF s # <<>> /\ IsSpace(s[Len(s)]) THEN TrimRight(SubSeq(s, 1, Len(s) - 1)) ELSE s

\* strings.TrimSpace
TrimSpace(s) == TrimRight(TrimLeft(s))

\* index of the first occurrence of character c in s, 0 when there is none
RECURSIVE IndexFrom(_, _, _)
IndexFrom(s, c, i) ==
    IF i > Len(s) THEN 0
    ELSE IF s[i] = c THEN i
    ELSE IndexFrom(s, c, i + 1)

Index(s, c) == IndexFrom(s, c, 1)

\* a mutant of Cut: the text is cut at the last separator
CutLast(s, sep) ==
    LET I == {j \in 1..Len(s) : s[j] = sep}
        i == IF I = {} THEN 0 ELSE CHOOSE j \in I : \A m \in I : m <= j
    IN IF i = 0 THEN [before |-> s, after |-> <<>>, found |-> FALSE]
       ELSE [before |-> SubSeq(s, 1, i - 1), after |-> SubSeq(s, i + 1, Len(s)), found |-> TRUE]

\* strings.Cut(s, sep) for a one-character separator
Cut(s, sep) ==
    LET i == Index(s, sep) IN
    IF i = 0 THEN [before |-> s, after |-> <<>>, found |-> FALSE]
    ELSE [before |-> SubSeq(s, 1, i - 1), after |-> SubSeq(s, i + 1, Len(s)), found |-> TRUE]

\* strings.Split(s, sep) for a one-character separator
RECURSIVE Split(_, _)
Split(s, sep) ==
    LET i == Index(s, sep) IN
    IF i = 0 THEN <<s>>
    ELSE <<SubSeq(s, 1, i - 1)>> \o Split(SubSeq(s, i + 1, Len(s)), sep)

\* s < t as Go compares strings: bytewise, a proper prefix first
RECURSIVE Less(_, _)
Less(s, t) ==
    IF t = <<>> THEN FALSE
    ELSE IF s = <<>> THEN TRUE
    ELSE IF Code(Head(s)) # Code(Head(t)) THEN Code(Head(s)) < Code(Head(t))
    ELSE Less(Tail(s), Tail(t))

\* a mutant of Sorted: descending order
RECURSIVE SortedDescending(_)
SortedDescending(S) ==
    IF S = {} THEN <<>>
    ELSE LET m == CHOOSE x \in S : \A y \in S \ {x} : Less(y, x)
         IN <<m>> \o SortedDescending(S \ {m})

\* slices.Sorted(maps.Keys(m)): the keys in ascending order
RECURSIVE Sorted(_)
Sorted(S) ==
    IF S = {} THEN <<>>
    ELSE LET m == CHOOSE x \in S : \A y \in S \ {x} : Less(x, y)
         IN <<m>> \o Sorted(S \ {m})

\* strings.Join
RECURSIVE Join(_, _)
Join(elems, sep) ==
    IF elems = <<>> THEN <<>>
    ELSE IF Len(elems) = 1 THEN elems[1]
    ELSE elems[1] \o sep \o Join(Tail(elems), sep)

(***************************************************************************)
(* parseKvs.  The result is the mapping, or no mapping and the error with   *)
(* the line or key it quotes.                                              *)
(***************************************************************************)
EmptyMap == [k \in {} |-> <<>>]

Put(m, k, v) == [x \in DOMAIN m \cup {k} |-> IF x = k THEN v ELSE m[x]]

Delete(m, k) == [x \in DOMAIN m \ {k} |-> m[x]]

RECURSIVE parseKvsFrom(_, _, _)
parseKvsFrom(list, i, out) ==
    IF i > Len(list) THEN [out |-> out, err |-> "nil", text |-> <<>>]
    ELSE
      LET line == TrimSpace(list[i])
          cut == Cut(line, "=")
          k == TrimSpace(cut.before)
          v == TrimSpace(cut.after)
      IN IF line = <<>> THEN parseKvsFrom(list, i + 1, out)
         ELSE IF ~cut.found THEN [out |-> EmptyMap, err |-> "format", text |-> line]
         ELSE IF k = <<>> \/ v = <<>> THEN [out |-> EmptyMap, err |-> "empty", text |-> line]
         ELSE IF k \in DOMAIN out THEN [out |-> EmptyMap, err |-> "duplicate", text |-> k]
         ELSE parseKvsFrom(list, i + 1, Put(out, k, v))

\* a mutant of parseKvs: an error comes with the pairs parsed before it
RECURSIVE parseKvsPartialFrom(_, _, _)
parseKvsPartialFrom(list, i, out) ==
    IF i > Len(list) THEN [out |-> out, err |-> "nil", text |-> <<>>]
    ELSE
      LET line == TrimSpace(list[i])
          cut == Cut(line, "=")
          k == TrimSpace(cut.before)
          v == TrimSpace(cut.after)
      IN IF line = <<>> THEN parseKvsPartialFrom(list, i + 1, out)
         ELSE IF ~cut.found THEN [out |-> out, err |-> "format", text |-> line]
         ELSE IF k = <<>> \/ v = <<>> THEN [out |-> out, err |-> "empty", text |-> line]
         ELSE IF k \in DOMAIN out THEN [out |-> out, err |-> "duplicate", text |-> k]
         ELSE parseKvsPartialFrom(list, i + 1, Put(out, k, v))

parseKvsPartial(list) == parseKvsPartialFrom(list, 1, EmptyMap)

parseKvs(list) == parseKvsFrom(list, 1, EmptyMap)

(***************************************************************************)
(* Values of the model.                                                    *)
(***************************************************************************)
\* time.Hour, the clock's unit
Hour == 1

NoTime == 0 - 1

StackType == "AWS::CloudFormation::Stack"

UpdateCancelled == "Resource update cancelled"

\* newToken: 20 random bytes, hex-encoded after "ucs-"; one value stands for the
\* run's draw, and no other operation's token collides with it
newToken == "ucs-run"

NoToken == "nil"

ForeignToken == "ucs-other"

Keys == {Str("a"), Str("b"), Str("c")}

Values == {Str("x"), Str("y")}

StackNames == {"", "prod"}

\* lines of the command line: valid pairs, one needing trimming, one whose value
\* holds a '=', a blank line, a line without '=', a pair with an empty value and
\* a pair with an empty key
Lines ==
    { <<"a", "=", "x">>, <<" ", "b", " ", "=", " ", "y", "\n">>, <<"c", "=", "x">>,
      <<"a", "=", "y", "=", "x">>,
      <<" ">>, <<"a", "b">>, <<"a", "=", " ">>, <<"=", "x">> }

\* values of the INPUT_PARAMETERS environment variable
InputParameters ==
    { <<>>, <<"a", "=", "y", "\n", "b", "=", "x", "\n">>, <<"c", "=">> }

RECURSIVE SeqsUpTo(_, _)
SeqsUpTo(S, n) ==
    IF n = 0 THEN {<<>>}
    ELSE LET shorter == SeqsUpTo(S, n - 1)
         IN shorter \cup {Append(q, x) : q \in {r \in shorter : Len(r) = n - 1}, x \in S}

\* the parameter lists of a stack: the keys of one stack are distinct
ParameterLists(n) ==
    LET P == [ParameterKey : Keys, ParameterValue : Values]
    IN {q \in SeqsUpTo(P, n) : \A i, j \in 1..Len(q) : i # j => q[i].ParameterKey # q[j].ParameterKey}

\* capabilities and notification targets of a stack
StackSettings ==
    << [Capabilities |-> <<"CAPABILITY_IAM">>, NotificationARNs |-> <<"arn:aws:sns:topic">>],
       [Capabilities |-> <<>>, NotificationARNs |-> <<>>],
       [Capabilities |-> <<"CAPABILITY_NAMED_IAM", "CAPABILITY_IAM">>, NotificationARNs |-> <<>>] >>

\* the stacks DescribeStacks may return: at most n parameters, one of the first m settings
Stacks(n, m) ==
    {[Parameters |-> q, Capabilities |-> StackSettings[i].Capabilities,
      NotificationARNs |-> StackSettings[i].NotificationARNs] :
        q \in ParameterLists(n), i \in 1..m}

NoStack == [Parameters |-> <<>>, Capabilities |-> <<"none">>, NotificationARNs |-> <<"none">>]

NoReq ==
    [StackName |-> "", ClientRequestToken |-> NoToken, UsePreviousTemplate |-> FALSE,
     Parameters |-> <<>>, Capabilities |-> <<"none">>, NotificationARNs |-> <<"none">>]

\* types.Parameter: an explicit value, or the use-previous-value flag and no value
NoValue == <<"nil">>

ExplicitParameter(k, v) == [ParameterKey |-> k, ParameterValue |-> v, UsePreviousValue |-> FALSE]

PreviousParameter(k) == [ParameterKey |-> k, ParameterValue |-> NoValue, UsePreviousValue |-> TRUE]

(***************************************************************************)
(* Errors.  One record shape for every error run can return.               *)
(***************************************************************************)
Error(kind) ==
    [kind |-> kind, op |-> "", code |-> "", message |-> "", status |-> "", reason |-> "", text |-> <<>>]

NoErr == Error("nil")

errAlreadySet == Error("alreadySet")

NoUpdates == "No updates are to be performed."

\* what a call of the backing system can fail with: a transport error (no API
\* error in the chain) or an API error with its code and message
ApiFailures ==
    << [code |-> "", message |-> "connection reset"],
       [code |-> "ValidationError", message |-> NoUpdates],
       [code |-> "ValidationError", message |-> "Stack is in UPDATE_IN_PROGRESS state and can not be updated."],
       [code |-> "AccessDenied", message |-> NoUpdates] >>

\* the first n of them
Failures(n) == {ApiFailures[i] : i \in 1..n}

ApiError(op, f) == [Error("api") EXCEPT !.op = op, !.code = f.code, !.message = f.message]

(***************************************************************************)
(* Stack events.                                                           *)
(***************************************************************************)
Event(ts, tok, id, type, status, reason) ==
    [Timestamp |-> ts, ClientRequestToken |-> tok, LogicalResourceId |-> id,
     ResourceType |-> type, ResourceStatus |-> status, ResourceStatusReason |-> reason]

NoEvt == Event(NoTime, NoToken, "", "", "", "")

\* the events the backing system may report for stack s: events of this run's
\* update (stack-level, nested and resource-level), an old and an undated one,
\* and events of other operations, recent and old
EventList(s) ==
    << Event(MaxTime, newToken, s, StackType, "UPDATE_COMPLETE", ""),
      Event(MaxTime, newToken, s, StackType, "UPDATE_ROLLBACK_COMPLETE", ""),
      Event(MaxTime, newToken, s, StackType, "ROLLBACK_FAILED", ""),
      Event(MaxTime, newToken, "Nested", StackType, "UPDATE_COMPLETE", ""),
      Event(MaxTime, newToken, s, "AWS::ECS::Service", "UPDATE_COMPLETE", ""),
      Event(MaxTime, newToken, "Service", "AWS::ECS::Service", "UPDATE_FAILED", UpdateCancelled),
      Event(MaxTime, newToken, "Service", "AWS::ECS::Service", "UPDATE_FAILED", "Invalid image"),
      Event(0, newToken, s, StackType, "UPDATE_COMPLETE", ""),
      Event(NoTime, newToken, s, StackType, "UPDATE_COMPLETE", ""),
      Event(MaxTime, ForeignToken, s, StackType, "UPDATE_COMPLETE", ""),
      Event(0, ForeignToken, s, StackType, "UPDATE_ROLLBACK_COMPLETE", ""),
      Event(MaxTime, NoToken, s, StackType, "ROLLBACK_FAILED", "") >>

\* the first n of them
Events(s, n) == {EventList(s)[i] : i \in 1..n}

AllEvents == Len(EventList(""))

(***************************************************************************)
(* main: what the process logs and exits with for the error run returned.  *)
(***************************************************************************)
githubWarnPrefix(gh) == IF gh THEN "::warning::" ELSE ""

githubErrPrefix(gh) == IF gh THEN "::error::" ELSE ""

NothingLogged == [level |-> "none", prefix |-> "", text |-> ""]

\* a mutant of IsNoUpdates: the message is not compared
IsNoUpdatesAnyMessage(e) == e.kind = "api" /\ e.code = "ValidationError"

\* errors.As finds an API error with this code and message in the chain
IsNoUpdates(e) == e.kind = "api" /\ e.code = "ValidationError" /\ e.message = NoUpdates

\* a mutant of mainSingle: the already-set error is fatal like any other
mainSingleNoAlreadySet(e, gh) ==
    IF e = NoErr THEN [exit |-> 0, logged |-> NothingLogged]
    ELSE IF IsNoUpdates(e)
      THEN [exit |-> 0, logged |-> [level |-> "print", prefix |-> githubWarnPrefix(gh), text |-> "nothing to update"]]
    ELSE [exit |-> 1, logged |-> [level |-> "fatal", prefix |-> githubErrPrefix(gh), text |-> e.kind]]

\* main of the single-parameter variant
mainSingle(e, gh) ==
    IF e = NoErr THEN [exit |-> 0, logged |-> NothingLogged]
    ELSE IF e = errAlreadySet
      THEN [exit |-> 0, logged |-> [level |-> "print", prefix |-> githubWarnPrefix(gh), text |-> "stack already has required parameter value"]]
    ELSE IF IsNoUpdates(e)
      THEN [exit |-> 0, logged |-> [level |-> "print", prefix |-> githubWarnPrefix(gh), text |-> "nothing to update"]]
    ELSE [exit |-> 1, logged |-> [level |-> "fatal", prefix |-> githubErrPrefix(gh), text |-> e.kind]]

\* main of the multi-parameter variant
mainMulti(e, gh) ==
    IF e = NoErr THEN [exit |-> 0, logged |-> NothingLogged]
    ELSE IF IsNoUpdates(e)
      THEN [exit |-> 0, logged |-> [level |-> "print", prefix |-> githubWarnPrefix(gh), text |-> "nothing to update"]]
    ELSE [exit |-> 1, logged |-> [level |-> "fatal", prefix |-> githubErrPrefix(gh), text |-> e.kind]]

main(v, e, gh) == IF v = "single" THEN mainSingle(e, gh) ELSE mainMulti(e, gh)

\* run returns e and main exits the process
Return(e) ==
    /\ pc' = "done"
    /\ err' = e
    /\ exit' = main(variant, e, underGithub).exit
    /\ logged' = main(variant, e, underGithub).logged

(***************************************************************************)
(* The reconciliation loops over the stack's current parameters.           *)
(***************************************************************************)
\* runArgs.validate
validate(s, k, v) == ~(s = "" \/ k = <<>> \/ v = <<>>)

\* single-parameter variant: the loop, leaving the requested key out
RECURSIVE reconcileSingleFrom(_, _, _, _, _, _)
reconcileSingleFrom(current, key, value, i, params, seenKey) ==
    IF i > Len(current)
      THEN [params |-> params, seenKey |-> seenKey, alreadySet |-> FALSE]
    ELSE
      LET k == current[i].ParameterKey IN
      IF k = key /\ current[i].ParameterValue = value
        THEN [params |-> params, seenKey |-> seenKey, alreadySet |-> TRUE]
      ELSE IF k = key
        THEN reconcileSingleFrom(current, key, value, i + 1, params, TRUE)
      ELSE reconcileSingleFrom(current, key, value, i + 1, Append(params, PreviousParameter(k)), seenKey)

\* a mutant of reconcileSingle: the requested key's entry is not skipped
RECURSIVE reconcileSingleNoContinue(_, _, _, _, _, _)
reconcileSingleNoContinue(current, key, value, i, params, seenKey) ==
    IF i > Len(current)
      THEN [params |-> params, seenKey |-> seenKey, alreadySet |-> FALSE]
    ELSE
      LET k == current[i].ParameterKey IN
      IF k = key /\ current[i].ParameterValue = value
        THEN [params |-> params, seenKey |-> seenKey, alreadySet |-> TRUE]
      ELSE reconcileSingleNoContinue(current, key, value, i + 1, Append(params, PreviousParameter(k)), seenKey \/ k = key)

reconcileSingleKeepsKey(current, key, value) == reconcileSingleNoContinue(current, key, value, 1, <<>>, FALSE)

reconcileSingle(current, key, value) == reconcileSingleFrom(current, key, value, 1, <<>>, FALSE)

\* multi-parameter variant: the loop, consuming the overrides it applies
RECURSIVE reconcileMultiFrom(_, _, _, _)
reconcileMultiFrom(current, replace, i, params) ==
    IF i > Len(current) THEN [params |-> params, toReplace |-> replace]
    ELSE
      LET k == current[i].ParameterKey IN
      IF k \in DOMAIN replace
        THEN reconcileMultiFrom(current, Delete(replace, k), i + 1, Append(params, ExplicitParameter(k, replace[k])))
      ELSE reconcileMultiFrom(current, replace, i + 1, Append(params, PreviousParameter(k)))

\* a mutant of reconcileMulti: the overridden entries are moved to the end
RECURSIVE reconcileMultiMoving(_, _, _, _, _)
reconcileMultiMoving(current, replace, i, params, moved) ==
    IF i > Len(current) THEN [params |-> params \o moved, toReplace |-> replace]
    ELSE
      LET k == current[i].ParameterKey IN
      IF k \in DOMAIN replace
        THEN reconcileMultiMoving(current, Delete(replace, k), i + 1, params, Append(moved, ExplicitParameter(k, replace[k])))
      ELSE reconcileMultiMoving(current, replace, i + 1, Append(params, PreviousParameter(k)), moved)

reconcileMultiAtEnd(current, replace) == reconcileMultiMoving(current, replace, 1, <<>>, <<>>)

reconcileMulti(current, replace) == reconcileMultiFrom(current, replace, 1, <<>>)

\* the error naming the overrides the stack has no parameter for
unknownParameters(replace) ==
    [Error("unknownParameters") EXCEPT !.text = Join(Sorted(DOMAIN replace), <<",", " ">>)]

\* a mutant of UpdateStackInput: the capabilities are not passed on
UpdateStackInputNoCapabilities(name, tok, params, s) ==
    [StackName |-> name, ClientRequestToken |-> tok, UsePreviousTemplate |-> TRUE,
     Parameters |-> params, Capabilities |-> <<>>, NotificationARNs |-> s.NotificationARNs]

\* the UpdateStack request both variants build
UpdateStackInput(name, tok, params, s) ==
    [StackName |-> name, ClientRequestToken |-> tok, UsePreviousTemplate |-> TRUE,
     Parameters |-> params, Capabilities |-> s.Capabilities, NotificationARNs |-> s.NotificationARNs]

(***************************************************************************)
(* The scan of one page of stack events.                                   *)
(***************************************************************************)
\* a mutant of IsStale: no event is too old
IsStaleNever(e, cutoff) == FALSE

IsStale(e, cutoff) == e.Timestamp # NoTime /\ e.Timestamp < cutoff

\* a mutant of IsForeign: only an absent token is foreign
IsForeignOnlyNil(e, tok) == e.ClientRequestToken = NoToken

IsForeign(e, tok) == e.ClientRequestToken = NoToken \/ e.ClientRequestToken # tok

\* a mutant of IsStackEvent: the logical id is not compared
IsStackEventAnyId(e, name) == e.ResourceType = StackType

IsStackEvent(e, name) == e.LogicalResourceId = name /\ e.ResourceType = StackType

updateFailed(e) ==
    [Error("updateFailed") EXCEPT !.status = e.ResourceStatus, !.reason = e.ResourceStatusReason]

rolledBack(e) == [Error("rolledBack") EXCEPT !.status = e.ResourceStatus]

\* single-parameter variant: the failure check
failsSingle(e) == e.ResourceStatus = "UPDATE_FAILED"

\* a mutant of failsMulti: the cancelled marker is fatal too
failsMultiAnyReason(e) == e.ResourceStatus = "UPDATE_FAILED"

\* multi-parameter variant: the failure check
failsMulti(e) == e.ResourceStatus = "UPDATE_FAILED" /\ e.ResourceStatusReason # UpdateCancelled

\* single-parameter variant: the switch on a stack-level event's status
terminalSingle(e) ==
    IF e.ResourceStatus = "UPDATE_COMPLETE" THEN [ends |-> TRUE, err |-> NoErr]
    ELSE [ends |-> FALSE, err |-> NoErr]

\* multi-parameter variant: the switch on a stack-level event's status
terminalMulti(e) ==
    IF e.ResourceStatus \in {"UPDATE_ROLLBACK_COMPLETE", "ROLLBACK_FAILED"} THEN [ends |-> TRUE, err |-> rolledBack(e)]
    ELSE IF e.ResourceStatus = "UPDATE_COMPLETE" THEN [ends |-> TRUE, err |-> NoErr]
    ELSE [ends |-> FALSE, err |-> NoErr]

fails(v, e) == IF v = "single" THEN failsSingle(e) ELSE failsMulti(e)

terminal(v, e) == IF v = "single" THEN terminalSingle(e) ELSE terminalMulti(e)

\* the loop over the events of a page: it falls through to the next page
\* ("next"), breaks out of the tick's scan ("break") or returns from run
\* ("return"); evt is the event it broke or returned at, seen are the events
\* that passed the staleness check
RECURSIVE scanEventsFrom(_, _, _, _, _, _, _)
scanEventsFrom(v, name, tok, cutoff, evts, i, seen) ==
    IF i > Len(evts) THEN [res |-> "next", err |-> NoErr, evt |-> NoEvt, seen |-> seen]
    ELSE
      LET e == evts[i] IN
      IF IsStale(e, cutoff) THEN [res |-> "break", err |-> NoErr, evt |-> e, seen |-> seen]
      ELSE IF IsForeign(e, tok) THEN scanEventsFrom(v, name, tok, cutoff, evts, i + 1, Append(seen, e))
      ELSE IF fails(v, e) THEN [res |-> "return", err |-> updateFailed(e), evt |-> e, seen |-> Append(seen, e)]
      ELSE IF IsStackEvent(e, name) /\ terminal(v, e).ends
        THEN [res |-> "return", err |-> terminal(v, e).err, evt |-> e, seen |-> Append(seen, e)]
      ELSE scanEventsFrom(v, name, tok, cutoff, evts, i + 1, Append(seen, e))

scanEvents(v, name, tok, cutoff, evts) == scanEventsFrom(v, name, tok, cutoff, evts, 1, <<>>)

\* the events of page p of the stream, n events to a page
PageOf(s, p, n) ==
    LET first == (p - 1) * n + 1
        last == IF p * n < Len(s) THEN p * n ELSE Len(s)
    IN SubSeq(s, first, last)

\* the paginator has a next token after page p
HasMorePages(s, p, n) == p * n < Len(s)

InsertAt(s, i, e) == SubSeq(s, 1, i) \o <<e>> \o SubSeq(s, i + 1, Len(s))

(***************************************************************************)
(* The calls of the backing system one run has made: how many of            *)
(* DescribeStacks and of UpdateStack, and whether any of                   *)
(* DescribeStackEvents, which is called once for every page of every tick. *)
(***************************************************************************)
NoCalls == [DescribeStacks |-> 0, UpdateStack |-> 0, DescribeStackEvents |-> 0]

Called(c, name) == [c EXCEPT ![name] = IF name = "DescribeStackEvents" THEN 1 ELSE @ + 1]

(***************************************************************************)
(* Initial states: the command line and environment of one run.            *)
(***************************************************************************)
Fresh ==
    /\ pc = "start"
    /\ overrides = EmptyMap
    /\ toReplace = EmptyMap
    /\ stack = NoStack
    /\ updateReq = NoReq
    /\ calls = NoCalls
    /\ token = NoToken
    /\ oldEventsCutoff = 0
    /\ tickReady = FALSE
    /\ cancelled = FALSE
    /\ stream = <<>>
    /\ page = 0
    /\ lastEvt = NoEvt
    /\ err = NoErr
    /\ exit = NoTime
    /\ logged = NothingLogged

SingleInputs(names, keys, values) ==
    /\ variant = "single"
    /\ stackName \in names
    /\ argKey \in keys
    /\ argValue \in values
    /\ underGithub \in BOOLEAN
    /\ args = <<>>
    /\ inputParameters = <<>>

\* INPUT_PARAMETERS is read only under GitHub with no arguments given
MultiInputs(names, lists, texts) ==
    /\ variant = "multi"
    /\ stackName \in names
    /\ argKey = <<>>
    /\ argValue = <<>>
    /\ underGithub \in BOOLEAN
    /\ args \in lists
    /\ inputParameters \in (IF underGithub /\ args = <<>> THEN texts ELSE {<<>>})

\* any command line, a quiet stack
Init ==
    /\ Fresh
    /\ limits = [params |-> MaxParams, settings |-> Len(StackSettings), time |-> Hour,
                 events |-> 1, kinds |-> 1, page |-> 1, failures |-> Len(ApiFailures)]
    /\ \/ SingleInputs(StackNames, Keys \cup {<<>>}, Values \cup {<<>>})
       \/ MultiInputs(StackNames, SeqsUpTo(Lines, MaxArgs), InputParameters)

\* one command line, a busy stack whose events come one to a page or PageSize
\* to a page, calls that fail in one of two ways
InitMonitor ==
    /\ Fresh
    /\ \E n \in {1, PageSize} :
         limits = [params |-> 1, settings |-> 1, time |-> MaxTime,
                   events |-> MaxEvents, kinds |-> AllEvents, page |-> n, failures |-> 2]
    /\ \/ SingleInputs({"prod"}, {Str("a")}, {Str("x")})
       \/ MultiInputs({"prod"}, {<<<<"a", "=", "x">>>>}, {<<>>})

\* one command line, a stack that reports at most one event
InitLive ==
    /\ Fresh
    /\ limits = [params |-> 1, settings |-> 1, time |-> MaxTime,
                 events |-> 1, kinds |-> AllEvents, page |-> 1, failures |-> 1]
    /\ \/ SingleInputs({"prod"}, {Str("a")}, {Str("x")})
       \/ MultiInputs({"prod"}, {<<<<"a", "=", "x">>>>}, {<<>>})

(***************************************************************************)
(* run, up to the UpdateStack call.                                        *)
(***************************************************************************)
monitorVars == <<token, oldEventsCutoff, tickReady, cancelled, stream, page, lastEvt>>

inputVars == <<variant, stackName, argKey, argValue, underGithub, inputParameters, limits>>

\* single-parameter variant: validate, load the configuration, call DescribeStacks
StartSingle ==
    /\ pc = "start" /\ variant = "single"
    /\ IF ~validate(stackName, argKey, argValue)
         THEN Return(Error("validate")) /\ calls' = calls
         ELSE \/ Return(Error("config")) /\ calls' = calls
              \/ /\ pc' = "describe"
                 /\ calls' = Called(calls, "DescribeStacks")
                 /\ UNCHANGED <<err, exit, logged>>
    /\ UNCHANGED <<inputVars, args, overrides, toReplace, stack, updateReq, monitorVars>>

\* the arguments parseKvs is given
effectiveArgs == IF underGithub /\ Len(args) = 0 THEN Split(inputParameters, "\n") ELSE args

\* multi-parameter variant: parse the overrides, load the configuration, call
\* DescribeStacks.  run never reads the lines again after parseKvs, so they are
\* dropped here; overrides keeps the mapping parseKvs returned, which the loop
\* over stack.Parameters then empties in its working copy toReplace
StartMulti ==
    /\ pc = "start" /\ variant = "multi"
    /\ LET parsed == parseKvs(effectiveArgs) IN
       IF stackName = ""
         THEN Return(Error("noStackName")) /\ UNCHANGED <<calls, args, overrides, toReplace>>
       ELSE IF parsed.err # "nil"
         THEN /\ Return([Error(parsed.err) EXCEPT !.text = parsed.text])
              /\ args' = <<>> /\ overrides' = parsed.out /\ toReplace' = parsed.out
              /\ calls' = calls
       ELSE IF Cardinality(DOMAIN parsed.out) = 0
         THEN /\ Return(Error("emptyList"))
              /\ args' = <<>> /\ overrides' = parsed.out /\ toReplace' = parsed.out
              /\ calls' = calls
       ELSE /\ args' = <<>> /\ overrides' = parsed.out /\ toReplace' = parsed.out
            /\ \/ Return(Error("config")) /\ calls' = calls
               \/ /\ pc' = "describe"
                  /\ calls' = Called(calls, "DescribeStacks")
                  /\ UNCHANGED <<err, exit, logged>>
    /\ UNCHANGED <<inputVars, stack, updateReq, monitorVars>>

\* DescribeStacks fails, or returns another number of stacks than one
DescribeStacksFails ==
    /\ pc = "describe"
    /\ \/ \E f \in Failures(limits.failures) : Return(ApiError("DescribeStacks", f))
       \/ Return(Error("stackCount"))
    /\ UNCHANGED <<inputVars, args, overrides, toReplace, stack, updateReq, calls, monitorVars>>

\* the UpdateStack call goes out with a fresh token
CallUpdateStack(params, s) ==
    /\ pc' = "update"
    /\ token' = newToken
    /\ updateReq' = UpdateStackInput(stackName, newToken, params, s)
    /\ calls' = Called(calls, "UpdateStack")
    /\ UNCHANGED <<err, exit, logged>>

\* single-parameter variant: DescribeStacks returns the stack, run reconciles
DescribeStacksSingle ==
    /\ pc = "describe" /\ variant = "single"
    /\ \E s \in Stacks(limits.params, limits.settings) :
         /\ stack' = s
         /\ LET r == reconcileSingle(s.Parameters, argKey, argValue) IN
            IF r.alreadySet
              THEN Return(errAlreadySet) /\ UNCHANGED <<token, updateReq, calls>>
            ELSE IF ~r.seenKey
              THEN Return(Error("noKey")) /\ UNCHANGED <<token, updateReq, calls>>
            ELSE CallUpdateStack(Append(r.params, ExplicitParameter(argKey, argValue)), s)
    /\ UNCHANGED <<inputVars, args, overrides, toReplace, oldEventsCutoff, tickReady, cancelled, stream, page, lastEvt>>

\* multi-parameter variant: DescribeStacks returns the stack, run reconciles
DescribeStacksMulti ==
    /\ pc = "describe" /\ variant = "multi"
    /\ \E s \in Stacks(limits.params, limits.settings) :
         /\ stack' = s
         /\ LET r == reconcileMulti(s.Parameters, toReplace) IN
            /\ toReplace' = r.toReplace
            /\ IF Cardinality(DOMAIN r.toReplace) # 0
                 THEN Return(unknownParameters(r.toReplace)) /\ UNCHANGED <<token, updateReq, calls>>
                 ELSE CallUpdateStack(r.params, s)
    /\ UNCHANGED <<inputVars, args, overrides, oldEventsCutoff, tickReady, cancelled, stream, page, lastEvt>>

\* a mutant of UpdateStackFails: the failed call is made again
UpdateStackRetried ==
    /\ pc = "update"
    /\ calls' = Called(calls, "UpdateStack")
    /\ UNCHANGED <<inputVars, args, overrides, toReplace, stack, updateReq, pc, err, exit, logged, monitorVars>>

\* UpdateStack fails
UpdateStackFails ==
    /\ pc = "update"
    /\ \E f \in Failures(limits.failures) : Return(ApiError("UpdateStack", f))
    /\ UNCHANGED <<inputVars, args, overrides, toReplace, stack, updateReq, calls, monitorVars>>

\* UpdateStack succeeds: the cutoff is taken from the clock, read this once at
\* its earliest or its latest hour, and the ticker started
UpdateStackSucceeds ==
    /\ pc = "update"
    /\ pc' = "select"
    /\ \E timeNow \in {Hour, limits.time} : oldEventsCutoff' = timeNow - Hour
    /\ tickReady' = FALSE
    /\ UNCHANGED <<inputVars, args, overrides, toReplace, stack, updateReq, calls, token,
                   cancelled, stream, page, lastEvt, err, exit, logged>>

(***************************************************************************)
(* The environment of the polling loop.                                    *)
(***************************************************************************)
\* the loop is at the select statement ("select"), parked in it with neither
\* channel ready ("blocked"), or paginating ("scan")
Polling == pc \in {"select", "blocked", "scan"}

\* the ticker fires while the loop is not parked: its channel holds one tick
TimerFires ==
    /\ pc \in {"select", "scan"}
    /\ ~tickReady
    /\ tickReady' = TRUE
    /\ UNCHANGED <<inputVars, args, overrides, toReplace, stack, updateReq, calls, token, pc,
                   oldEventsCutoff, cancelled, stream, page, lastEvt, err, exit, logged>>

\* the context is cancelled while the loop is not parked
Cancel ==
    /\ pc \in {"select", "scan"}
    /\ ~cancelled
    /\ cancelled' = TRUE
    /\ UNCHANGED <<inputVars, args, overrides, toReplace, stack, updateReq, calls, token, pc,
                   oldEventsCutoff, tickReady, stream, page, lastEvt, err, exit, logged>>

\* the backing system reports one more event, anywhere in the stream; the
\* stream a tick paginates over is the one its first page was fetched from
Emit ==
    /\ pc \in {"select", "blocked"}
    /\ Len(stream) < limits.events
    /\ \E e \in Events(stackName, limits.kinds), i \in 0..Len(stream) : stream' = InsertAt(stream, i, e)
    /\ UNCHANGED <<inputVars, args, overrides, toReplace, stack, updateReq, calls, token, pc,
                   oldEventsCutoff, tickReady, cancelled, page, lastEvt, err, exit, logged>>

(***************************************************************************)
(* The polling loop.                                                       *)
(***************************************************************************)
\* run returns e from the polling loop: the deferred ticker.Stop() runs, and
\* the stopped ticker is dropped with whatever its channel held, and so is the
\* paginator of the tick
ReturnFromLoop(e) ==
    /\ Return(e)
    /\ tickReady' = FALSE
    /\ page' = 0

\* a tick starts: a paginator is made and its first page asked for
StartTick ==
    /\ tickReady' = FALSE
    /\ pc' = "scan"
    /\ page' = 1
    /\ lastEvt' = NoEvt
    /\ calls' = Called(calls, "DescribeStackEvents")
    /\ UNCHANGED <<inputVars, args, overrides, toReplace, stack, updateReq, token,
                   oldEventsCutoff, cancelled, stream, err, exit, logged>>

\* select finds a tick in the ticker's channel and takes it; with the context
\* cancelled as well, Go's select picks either ready case
SelectTick ==
    /\ pc = "select"
    /\ tickReady
    /\ StartTick

\* a mutant of SelectBlocks: the wait for the next tick gives up
SelectTimesOut ==
    /\ pc = "select"
    /\ ~tickReady /\ ~cancelled
    /\ ReturnFromLoop(Error("timeout"))
    /\ UNCHANGED <<inputVars, args, overrides, toReplace, stack, updateReq, calls, token,
                   oldEventsCutoff, cancelled, stream, lastEvt>>

\* select finds neither channel ready and parks the loop
SelectBlocks ==
    /\ pc = "select"
    /\ ~tickReady /\ ~cancelled
    /\ pc' = "blocked"
    /\ UNCHANGED <<inputVars, args, overrides, toReplace, stack, updateReq, calls, token,
                   oldEventsCutoff, tickReady, cancelled, stream, page, lastEvt, err, exit, logged>>

\* the ticker fires while the loop is parked: the tick is handed to it
TickWakes ==
    /\ pc = "blocked"
    /\ StartTick

\* the context is cancelled while the loop is parked: run returns
CancelWakes ==
    /\ pc = "blocked"
    /\ cancelled' = TRUE
    /\ ReturnFromLoop(Error("ctx"))
    /\ UNCHANGED <<inputVars, args, overrides, toReplace, stack, updateReq, calls, token,
                   oldEventsCutoff, stream, lastEvt>>

\* a mutant of SelectCancel: the cancellation is passed over and the loop waits
\* for the next tick
SelectCancelIgnored ==
    /\ pc = "select"
    /\ cancelled
    /\ pc' = "blocked"
    /\ UNCHANGED <<inputVars, args, overrides, toReplace, stack, updateReq, calls, token,
                   oldEventsCutoff, tickReady, cancelled, stream, page, lastEvt, err, exit, logged>>

\* select takes the context's cancellation
SelectCancel ==
    /\ pc = "select"
    /\ cancelled
    /\ ReturnFromLoop(Error("ctx"))
    /\ UNCHANGED <<inputVars, args, overrides, toReplace, stack, updateReq, calls, token,
                   oldEventsCutoff, cancelled, stream, lastEvt>>

\* a mutant of NextPageFails: the error ends the tick and the loop goes on
NextPageFailureSkipped ==
    /\ pc = "scan"
    /\ pc' = "select"
    /\ page' = 0
    /\ UNCHANGED <<inputVars, args, overrides, toReplace, stack, updateReq, calls, token,
                   oldEventsCutoff, tickReady, cancelled, stream, lastEvt, err, exit, logged>>

\* NextPage fails
NextPageFails ==
    /\ pc = "scan"
    /\ \E f \in Failures(limits.failures) : ReturnFromLoop(ApiError("DescribeStackEvents", f))
    /\ UNCHANGED <<inputVars, args, overrides, toReplace, stack, updateReq, calls, token,
                   oldEventsCutoff, cancelled, stream, lastEvt>>

\* NextPage returns a page and its events are scanned: run returns, the next
\* page is asked for, or the tick ends and its paginator with it; lastEvt is
\* the event the scan returned or broke at
NextPage ==
    /\ pc = "scan"
    /\ LET r == scanEvents(variant, stackName, token, oldEventsCutoff, PageOf(stream, page, limits.page)) IN
       /\ IF r.res = "return"
            THEN ReturnFromLoop(r.err) /\ lastEvt' = r.evt
          ELSE IF r.res = "next" /\ HasMorePages(stream, page, limits.page)
            THEN page' = page + 1 /\ UNCHANGED <<pc, tickReady, lastEvt, err, exit, logged>>
          ELSE pc' = "select" /\ page' = 0 /\ lastEvt' = r.evt /\ UNCHANGED <<tickReady, err, exit, logged>>
    /\ UNCHANGED <<inputVars, args, overrides, toReplace, stack, updateReq, calls, token,
                   oldEventsCutoff, cancelled, stream>>

Next ==
    \/ StartSingle
    \/ StartMulti
    \/ DescribeStacksFails
    \/ DescribeStacksSingle
    \/ DescribeStacksMulti
    \/ UpdateStackFails
    \/ UpdateStackSucceeds
    \/ TimerFires
    \/ Cancel
    \/ Emit
    \/ SelectTick
    \/ SelectBlocks
    \/ TickWakes
    \/ CancelWakes
    \/ SelectCancel
    \/ NextPageFails
    \/ NextPage

Spec == Init /\ [][Next]_vars

SpecMonitor == InitMonitor /\ [][Next]_vars

\* the goroutine of run is scheduled: a select with a ready case is executed,
\* one with none parks, and the call of NextPage returns.  Go's select picks a
\* ready case at random, so the cancellation, each time it is ready, is not
\* passed over for ever
LoopFairness ==
    /\ WF_vars(SelectTick)
    /\ WF_vars(SelectBlocks)
    /\ SF_vars(SelectCancel)
    /\ WF_vars(NextPage \/ NextPageFails)

\* the ticker fires every 20 seconds for as long as it is not stopped
TickerFairness == WF_vars(TimerFires) /\ WF_vars(TickWakes)

SpecLive == InitLive /\ [][Next]_vars /\ LoopFairness /\ TickerFairness

TypeOK ==
    /\ pc \in {"start", "describe", "update", "select", "blocked", "scan", "done"}
    /\ pc = "blocked" => ~tickReady /\ ~cancelled
    /\ exit \in {NoTime, 0, 1}

(***************************************************************************)
(* Properties of the reconciliation and the submission.                    *)
(***************************************************************************)
Described == stack # NoStack

Submitted == updateReq # NoReq

CurrentKeys == {stack.Parameters[i].ParameterKey : i \in 1..Len(stack.Parameters)}

Unmatched == DOMAIN overrides \ CurrentKeys

\* the one sequence that lists the set S in ascending order
Ascending(S) ==
    CHOOSE q \in [1..Cardinality(S) -> S] :
        /\ \A x \in S : \E i \in 1..Cardinality(S) : q[i] = x
        /\ \A i, j \in 1..Cardinality(S) : i < j => Less(q[i], q[j])

\* position of the requested key in the current list of the single-parameter run
KeyPosition == CHOOSE i \in 1..Len(stack.Parameters) : stack.Parameters[i].ParameterKey = argKey

KeyDiffers ==
    \E i \in 1..Len(stack.Parameters) :
        stack.Parameters[i].ParameterKey = argKey /\ stack.Parameters[i].ParameterValue # argValue

KeyAlreadySet ==
    \E i \in 1..Len(stack.Parameters) :
        stack.Parameters[i].ParameterKey = argKey /\ stack.Parameters[i].ParameterValue = argValue

\* C1: multi-parameter variant: when the override keys are among the keys of
\* the described stack, UpdateStack is called with one entry per current
\* parameter, in the current order, an overridden key carrying the override's
\* explicit value and every other entry the use-previous-value mark and no value.
C1_ReconciledInPlace ==
    (variant = "multi" /\ Described /\ DOMAIN overrides \subseteq CurrentKeys) =>
        /\ Submitted
        /\ Len(updateReq.Parameters) = Len(stack.Parameters)
        /\ \A i \in 1..Len(stack.Parameters) :
             LET k == stack.Parameters[i].ParameterKey
                 p == updateReq.Parameters[i]
             IN /\ p.ParameterKey = k
                /\ IF k \in DOMAIN overrides
                     THEN p.ParameterValue = overrides[k] /\ ~p.UsePreviousValue
                     ELSE p.ParameterValue = NoValue /\ p.UsePreviousValue

\* a stack of two parameters whose first is overridden and whose second is kept
C1_Witness ==
    /\ variant = "multi" /\ pc = "update"
    /\ Len(stack.Parameters) = 2
    /\ ~updateReq.Parameters[1].UsePreviousValue
    /\ updateReq.Parameters[2].UsePreviousValue

C3_UnknownParameters ==
    LET unmatched == Unmatched IN
    (variant = "multi" /\ Described /\ unmatched # {}) =>
        /\ pc = "done"
        /\ err.kind = "unknownParameters"
        /\ err.text = Join(Ascending(unmatched), <<",", " ">>)
        /\ calls.UpdateStack = 0
        /\ ~Submitted

\* two unmatched keys and a stack that defines some parameter
C3_Witness ==
    /\ variant = "multi" /\ pc = "done" /\ err.kind = "unknownParameters"
    /\ Cardinality(Unmatched) = 2
    /\ Len(stack.Parameters) > 0

\* C4: single-parameter variant: when the stack's current value of the requested
\* key is the requested value, run returns the already-set error without calling
\* UpdateStack or DescribeStackEvents, and the process prints it with the warning
\* prefix and exits with status zero.
C4_AlreadySet ==
    (variant = "single" /\ Described /\ KeyAlreadySet) =>
        /\ pc = "done"
        /\ err = errAlreadySet
        /\ calls.UpdateStack = 0
        /\ calls.DescribeStackEvents = 0
        /\ ~Submitted
        /\ exit = 0
        /\ logged.level = "print"
        /\ logged.prefix = (IF underGithub THEN "::warning::" ELSE "")

\* under GitHub, the requested value already set on the second parameter
C4_Witness ==
    /\ variant = "single" /\ pc = "done" /\ Described /\ underGithub
    /\ Len(stack.Parameters) = 2
    /\ stack.Parameters[2].ParameterKey = argKey
    /\ stack.Parameters[2].ParameterValue = argValue

\* the keys a run was asked to set
RequestedKeys == IF variant = "single" THEN {argKey} ELSE DOMAIN overrides

\* C5: both variants: the UpdateStack request reuses the template and carries
\* the capabilities and notification targets of the described stack unchanged;
\* only requested keys carry a value.
C5_SettingsRoundTrip ==
    LET requested == RequestedKeys IN
    Submitted =>
        /\ Described
        /\ updateReq.StackName = stackName
        /\ updateReq.UsePreviousTemplate = TRUE
        /\ updateReq.Capabilities = stack.Capabilities
        /\ updateReq.NotificationARNs = stack.NotificationARNs
        /\ \A i \in 1..Len(updateReq.Parameters) :
             \/ updateReq.Parameters[i].UsePreviousValue
             \/ updateReq.Parameters[i].ParameterKey \in requested

\* a request that carries two capabilities
C5_Witness ==
    /\ pc = "update"
    /\ Len(updateReq.Capabilities) = 2
    /\ updateReq.Capabilities = stack.Capabilities

(***************************************************************************)
(* Properties of the polling loop.                                         *)
(***************************************************************************)
\* the page the pending NextPage call returns
CurrentPage == PageOf(stream, page, limits.page)

Matched(e) == e.ClientRequestToken # NoToken /\ e.ClientRequestToken = token

Stale(e) == e.Timestamp # NoTime /\ e.Timestamp < oldEventsCutoff

\* the scan gets to event i of the page q: no event up to it is stale
Reached(q, i) == \A j \in 1..i : ~Stale(q[j])

Keep(q, Test(_)) ==
    LET F[i \in 0..Len(q)] ==
          IF i = 0 THEN <<>> ELSE IF Test(q[i]) THEN Append(F[i - 1], q[i]) ELSE F[i - 1]
    IN F[Len(q)]

\* the stream without the events of other operations
WithoutForeign(q) == LET Own(e) == Matched(e) IN Keep(q, Own)

\* the stream without the events of other operations that are not older than the cutoff
WithoutRecentForeign(q) == LET OwnOrStale(e) == Matched(e) \/ Stale(e) IN Keep(q, OwnOrStale)

\* how a tick over the event stream q ends when every page is fetched
TickOutcome(q) ==
    LET r == scanEvents(variant, stackName, token, oldEventsCutoff, q)
    IN IF r.res = "return" THEN [pc |-> "done", err |-> r.err] ELSE [pc |-> "select", err |-> NoErr]

\* a tick ends in this step, and not by a failed page fetch
TickEnds == NextPage /\ pc' # "scan"

\* C6 as stated: the events of other operations, whatever their timestamps, do
\* not change how a tick ends: it ends as the tick over the stream without them.
C6_AsStated ==
    [][TickEnds => [pc |-> pc', err |-> err'] = TickOutcome(WithoutForeign(stream))]_vars

\* C6 as amended: the events of other operations that are not older than the
\* cutoff do not change how a tick ends.
C6_RecentForeignIgnored ==
    [][TickEnds => [pc |-> pc', err |-> err'] = TickOutcome(WithoutRecentForeign(stream))]_vars

\* the run succeeds on its own event after skipping a recent stack-level
\* UPDATE_COMPLETE event of another operation
C6_Witness ==
    /\ pc = "done" /\ err = NoErr
    /\ Len(stream) = 2
    /\ stream[1].ClientRequestToken = ForeignToken
    /\ stream[1].ResourceStatus = "UPDATE_COMPLETE"
    /\ ~Stale(stream[1])
    /\ stream[1].LogicalResourceId = stackName
    /\ lastEvt = stream[2]

CompletesStack(e) ==
    /\ Matched(e)
    /\ e.LogicalResourceId = stackName
    /\ e.ResourceType = StackType
    /\ e.ResourceStatus = "UPDATE_COMPLETE"

\* C7: run returns success only from a scan that reached an event with the run's
\* token, the stack's name as logical id, the stack type and status
\* UPDATE_COMPLETE; no other UPDATE_COMPLETE event ends the run.
C7_SuccessOnlyOnStackComplete ==
    [][/\ (pc # "done" /\ pc' = "done" /\ err' = NoErr) =>
            /\ NextPage
            /\ \E i \in 1..Len(CurrentPage) :
                 /\ Reached(CurrentPage, i)
                 /\ CompletesStack(CurrentPage[i])
                 /\ lastEvt' = CurrentPage[i]
       /\ (NextPage /\ pc' = "done" /\ lastEvt'.ResourceStatus = "UPDATE_COMPLETE") =>
            CompletesStack(lastEvt')]_vars

\* the run succeeded after scanning the UPDATE_COMPLETE event of a nested stack
C7_Witness ==
    /\ pc = "done" /\ err = NoErr /\ exit = 0
    /\ Len(stream) = 2
    /\ Matched(stream[1]) /\ ~Stale(stream[1])
    /\ stream[1].ResourceStatus = "UPDATE_COMPLETE"
    /\ stream[1].ResourceType = StackType
    /\ stream[1].LogicalResourceId # stackName
    /\ lastEvt = stream[2]

RolledBack(e) ==
    /\ Matched(e)
    /\ e.LogicalResourceId = stackName
    /\ e.ResourceType = StackType
    /\ e.ResourceStatus \in {"UPDATE_ROLLBACK_COMPLETE", "ROLLBACK_FAILED"}

\* C8: in both variants, a scan whose first event is a stack-level event of the
\* run with status UPDATE_ROLLBACK_COMPLETE or ROLLBACK_FAILED, not older than
\* the cutoff, ends the run with the error naming that status, and the process
\* fails.
C8_RollbackFails ==
    [][(NextPage /\ CurrentPage # <<>> /\ RolledBack(CurrentPage[1]) /\ ~Stale(CurrentPage[1])) =>
          /\ pc' = "done"
          /\ err'.kind = "rolledBack"
          /\ err'.status = CurrentPage[1].ResourceStatus
          /\ exit' = 1]_vars

Without(q, i) == SubSeq(q, 1, i - 1) \o SubSeq(q, i + 1, Len(q))

FailedUpdate(e) == Matched(e) /\ e.ResourceStatus = "UPDATE_FAILED"

\* an event that ends the multi-parameter run when the scan gets to it
Decisive(e) ==
    \/ FailedUpdate(e) /\ e.ResourceStatusReason # UpdateCancelled
    \/ CompletesStack(e)
    \/ RolledBack(e)

\* the scan gets to event i of the page q and no event before it ends the run
Scanned(q, i) == Reached(q, i) /\ \A j \in 1..(i - 1) : ~Decisive(q[j])

\* C9: multi-parameter variant: an UPDATE_FAILED event of the run with the
\* reason "Resource update cancelled" does not end the run, and the scan goes on
\* as if the event were not there; the first UPDATE_FAILED event of the run with
\* another reason that the scan gets to ends the run with the error carrying the
\* event's status and reason.
C9_CancelledIsNotFatal ==
    [][(NextPage /\ variant = "multi") =>
          \A i \in 1..Len(CurrentPage) :
             (FailedUpdate(CurrentPage[i]) /\ Scanned(CurrentPage, i)) =>
                IF CurrentPage[i].ResourceStatusReason = UpdateCancelled
                  THEN /\ ~(pc' = "done" /\ lastEvt' = CurrentPage[i])
                       /\ LET r == scanEvents(variant, stackName, token, oldEventsCutoff, Without(CurrentPage, i))
                          IN /\ (r.res = "return") = (pc' = "done")
                             /\ r.res = "return" => (err' = r.err /\ lastEvt' = r.evt)
                             /\ r.res = "next" => (pc' = "select" \/ (pc' = "scan" /\ page' = page + 1))
                             /\ r.res = "break" => pc' = "select"
                  ELSE /\ pc' = "done"
                       /\ err'.kind = "updateFailed"
                       /\ err'.status = "UPDATE_FAILED"
                       /\ err'.reason = CurrentPage[i].ResourceStatusReason
                       /\ lastEvt' = CurrentPage[i]]_vars

\* the run failed on the root cause after scanning a cancelled resource
C9_Witness ==
    /\ variant = "multi" /\ pc = "done"
    /\ Len(stream) = 2
    /\ FailedUpdate(stream[1]) /\ ~Stale(stream[1])
    /\ stream[1].ResourceStatusReason = UpdateCancelled
    /\ lastEvt = stream[2]
    /\ err.kind = "updateFailed" /\ err.reason = "Invalid image"

\* C10: with the context cancelled when the loop comes to its select statement,
\* the loop starts no tick and asks for no page: it returns the cancellation
\* error, also when the ticker has fired.
C10_NoPollAfterCancellation ==
    [][(pc = "select" /\ cancelled /\ pc' # pc) =>
          /\ pc' = "done"
          /\ err'.kind = "ctx"
          /\ calls' = calls]_vars

(***************************************************************************)
(* Properties of the process's exit.                                       *)
(***************************************************************************)
\* the error-level report of an error: log.Fatal with the error prefix
Fatal == exit = 1 /\ logged.level = "fatal" /\ logged.prefix = (IF underGithub THEN "::error::" ELSE "")

\* the warning-level report: log.Print with the warning prefix, exit status zero
Warned == exit = 0 /\ logged.level = "print" /\ logged.prefix = (IF underGithub THEN "::warning::" ELSE "")

NothingToUpdate == err.kind = "api" /\ err.code = "ValidationError" /\ err.message = NoUpdates

Trimmed(s) ==
    LET I == {i \in 1..Len(s) : s[i] \notin {" ", "\n"}}
    IN IF I = {} THEN <<>>
       ELSE SubSeq(s, CHOOSE i \in I : \A j \in I : i <= j, CHOOSE i \in I : \A j \in I : j <= i)

HasEq(l) == \E i \in 1..Len(l) : l[i] = "="

FirstEq(l) == CHOOSE i \in 1..Len(l) : l[i] = "=" /\ \A j \in 1..(i - 1) : l[j] # "="

KeyOf(l) == Trimmed(SubSeq(l, 1, FirstEq(l) - 1))

ValueOf(l) == Trimmed(SubSeq(l, FirstEq(l) + 1, Len(l)))

\* the positions of the lines that are not blank
NonBlank(list) == {i \in 1..Len(list) : Trimmed(list[i]) # <<>>}

WellFormed(l) == HasEq(l) /\ KeyOf(l) # <<>> /\ ValueOf(l) # <<>>

\* every non-blank line is a pair, and no key comes twice
Valid(list) ==
    /\ \A i \in NonBlank(list) : WellFormed(list[i])
    /\ \A i, j \in NonBlank(list) : i # j => KeyOf(list[i]) # KeyOf(list[j])

\* run calls parseKvs in this step
Parses == StartMulti /\ stackName # ""

ParseErrors == {"format", "empty", "duplicate"}

\* C12: for lines whose non-blank ones each hold a '=' with a non-empty key and
\* value after trimming and pairwise distinct keys, parseKvs returns no error
\* and a mapping of exactly one entry per non-blank line: the trimmed text
\* before the first '=' mapped to the trimmed text after it; blank lines add
\* nothing, and no non-blank line at all gives the empty mapping and no error.
C12_ParsesValidLines ==
    [][(Parses /\ Valid(effectiveArgs)) =>
          LET list == effectiveArgs IN
          /\ err'.kind \notin ParseErrors
          /\ DOMAIN overrides' = {KeyOf(list[i]) : i \in NonBlank(list)}
          /\ Cardinality(DOMAIN overrides') = Cardinality(NonBlank(list))
          /\ \A i \in NonBlank(list) : overrides'[KeyOf(list[i])] = ValueOf(list[i])
          /\ NonBlank(list) = {} => overrides' = EmptyMap]_vars

\* two lines parsed: one with white space around its key and value, one whose
\* value holds a second '='
C12_Witness ==
    /\ variant = "multi" /\ pc = "describe"
    /\ DOMAIN overrides = {Str("a"), Str("b")}
    /\ overrides[Str("b")] = Str("y")
    /\ overrides[Str("a")] = <<"y", "=", "x">>

\* C13: parseKvs returns an error exactly when some non-blank line has no '=',
\* or an empty key or value after trimming, or the trimmed key of an earlier
\* line, whether or not the values are equal and however many valid lines come
\* before it; the error comes with no pairs at all.
C13_RejectsInvalidLines ==
    [][Parses =>
          /\ (err'.kind \in ParseErrors) = ~Valid(effectiveArgs)
          /\ err'.kind \in ParseErrors =>
                /\ overrides' = EmptyMap /\ toReplace' = EmptyMap
                /\ pc' = "done" /\ calls' = NoCalls
          /\ \A i, j \in NonBlank(effectiveArgs) :
                (/\ i < j
                 /\ \A m \in NonBlank(effectiveArgs) : m < j => WellFormed(effectiveArgs[m])
                 /\ WellFormed(effectiveArgs[j])
                 /\ KeyOf(effectiveArgs[i]) = KeyOf(effectiveArgs[j]))
                => err'.kind = "duplicate"]_vars

\* the key a was given twice
C13_Witness ==
    /\ variant = "multi" /\ pc = "done"
    /\ err.kind = "duplicate" /\ err.text = Str("a")
    /\ overrides = EmptyMap

(***************************************************************************)
(* Properties of the staleness cutoff.                                     *)
(***************************************************************************)
\* position of the first event of the page q that is older than the cutoff
FirstStale(q) == CHOOSE i \in 1..Len(q) : Stale(q[i]) /\ \A j \in 1..(i - 1) : ~Stale(q[j])

\* C14: the cutoff is the clock at the start of the monitor less one hour and
\* never changes afterwards; the first event of a page that is older than the
\* cutoff ends the tick's scan: the events before it are put to the token,
\* failure and terminal checks as ever, no event after it is looked at and no
\* further page is asked for in that tick.
C14_StaleTruncates ==
    [][/\ (pc = "update" /\ pc' = "select") => (oldEventsCutoff' + Hour) \in Hour..limits.time
       /\ pc \in {"select", "blocked", "scan", "done"} => oldEventsCutoff' = oldEventsCutoff
       /\ (NextPage /\ \E i \in 1..Len(CurrentPage) : Stale(CurrentPage[i])) =>
             LET i == FirstStale(CurrentPage)
                 r == scanEvents(variant, stackName, token, oldEventsCutoff, SubSeq(CurrentPage, 1, i - 1))
             IN IF r.res = "return"
                  THEN pc' = "done" /\ err' = r.err /\ lastEvt' = r.evt
                  ELSE /\ pc' = "select" /\ page' = 0
                       /\ lastEvt' = CurrentPage[i]
                       /\ calls' = calls /\ err' = err]_vars

\* a tick was ended by an old event that came before the stack's UPDATE_COMPLETE
\* event of this run, and the loop is back at its select statement
C14_Witness ==
    /\ pc = "select"
    /\ Len(stream) = 2
    /\ lastEvt = stream[1] /\ Stale(stream[1])
    /\ CompletesStack(stream[2]) /\ ~Stale(stream[2])

(***************************************************************************)
(* Properties of the single-parameter variant's failure check.             *)
(***************************************************************************)
\* C15: single-parameter variant: a scan whose first event is an UPDATE_FAILED
\* event of the run with the reason "Resource update cancelled", not older than
\* the cutoff, does not end the run with that event: the scan goes on to the
\* events after it.
C15_CancelledIsNotFatalSingle ==
    [][(/\ NextPage /\ variant = "single"
        /\ CurrentPage # <<>>
        /\ FailedUpdate(CurrentPage[1]) /\ ~Stale(CurrentPage[1])
        /\ CurrentPage[1].ResourceStatusReason = UpdateCancelled) =>
          ~(pc' = "done" /\ err'.kind = "updateFailed" /\ err'.reason = UpdateCancelled)]_vars

(***************************************************************************)
(* Properties of the order of the run's stages.                            *)
(***************************************************************************)
\* the input passed validation, or parsed to at least one override
InputsValid ==
    IF variant = "single"
      THEN stackName # "" /\ argKey # <<>> /\ argValue # <<>>
      ELSE stackName # "" /\ DOMAIN overrides # {}

\* the reconciliation of the described stack with the input succeeded
Reconciled ==
    /\ Described
    /\ IF variant = "single" THEN KeyDiffers ELSE DOMAIN overrides \subseteq CurrentKeys

\* C16: DescribeStacks is called at most once and only on valid input with at
\* least one override; UpdateStack at most once and only after DescribeStacks
\* returned the stack and the reconciliation succeeded; DescribeStackEvents only
\* after UpdateStack succeeded; an error of any stage ends the run with that
\* error: the stage is not tried again and no later call is made.
C16_StrictSequence ==
    /\ [](/\ calls.DescribeStacks <= 1 /\ calls.UpdateStack <= 1
          /\ calls.DescribeStacks = 1 => InputsValid
          /\ calls.UpdateStack = 1 => (calls.DescribeStacks = 1 /\ Reconciled)
          /\ calls.DescribeStackEvents = 1 => (calls.UpdateStack = 1 /\ err.op # "UpdateStack")
          /\ err # NoErr => pc = "done"
          /\ (err.op = "DescribeStacks" \/ err.kind = "stackCount") =>
                (calls.DescribeStacks = 1 /\ calls.UpdateStack = 0 /\ calls.DescribeStackEvents = 0)
          /\ err.op = "UpdateStack" => (calls.UpdateStack = 1 /\ calls.DescribeStackEvents = 0)
          /\ err.kind \in {"validate", "noStackName", "emptyList", "config"} \cup ParseErrors =>
                calls = NoCalls
          /\ err.kind \in {"alreadySet", "noKey", "unknownParameters"} =>
                (calls.DescribeStacks = 1 /\ calls.UpdateStack = 0 /\ calls.DescribeStackEvents = 0))
    /\ [][pc # "done"]_vars

\* UpdateStack was declined because another update is in progress, and the run
\* ended there
C16_Witness ==
    /\ pc = "done" /\ exit = 1
    /\ err.op = "UpdateStack" /\ err.code = "ValidationError" /\ err.message # NoUpdates
    /\ calls = [DescribeStacks |-> 1, UpdateStack |-> 1, DescribeStackEvents |-> 0]

(***************************************************************************)
(* Properties of a failed page fetch.                                      *)
(***************************************************************************)
\* the polling loop was left by the error of a page fetch
FetchFailed == pc = "done" /\ err.op = "DescribeStackEvents"

Outcome(e) == Matched(e) /\ (FailedUpdate(e) \/ CompletesStack(e) \/ RolledBack(e))

\* the scan of the page in this step returns at an event of that kind
ReturnsAtOutcome ==
    /\ NextPage /\ pc' = "done"
    /\ \E i \in 1..Len(CurrentPage) :
         Reached(CurrentPage, i) /\ Outcome(CurrentPage[i]) /\ lastEvt' = CurrentPage[i]

\* C18: the loop leaves Polling only by a page fetch that fails, by the
\* cancellation, or by a scan that reaches a failure or terminal event of the
\* run, never for the time passed or the ticks made; a scan that reaches no
\* such event leaves it polling.  A scan starts only by taking a tick from the
\* ticker, the first scan too, and each tick taken starts one scan.
C18_NoImplicitTimeout ==
    [][/\ (Polling /\ ~Polling') =>
            \/ pc = "scan" /\ err'.op = "DescribeStackEvents"
            \/ cancelled' /\ err'.kind = "ctx"
            \/ ReturnsAtOutcome
       /\ (NextPage /\ \A i \in 1..Len(CurrentPage) : ~Outcome(CurrentPage[i])) => Polling'
       /\ (pc # "scan" /\ pc' = "scan") =>
            /\ pc \in {"select", "blocked"}
            /\ pc = "select" => tickReady
            /\ ~tickReady' /\ page' = 1
       /\ (tickReady /\ ~tickReady') => ((pc = "select" /\ pc' = "scan") \/ pc' = "done")
       /\ (pc = "update" /\ Polling') => (pc' = "select" /\ ~tickReady' /\ calls'.DescribeStackEvents = 0)]_vars

\* a tick has passed whose scan was ended by an old event, and the loop waits
\* for the next tick
C18_Witness ==
    /\ pc = "blocked" /\ calls.DescribeStackEvents = 1
    /\ lastEvt # NoEvt /\ Stale(lastEvt)
    /\ \A i \in 1..Len(stream) : ~Outcome(stream[i]) \/ Stale(stream[i])

(***************************************************************************)
(* Progress of the polling loop, under LoopFairness and TickerFairness.    *)
(***************************************************************************)
\* the stream holds a stack-level event of the run with a terminal status that
\* is not older than the cutoff
HasTerminal ==
    /\ token # NoToken
    /\ \E i \in 1..Len(stream) :
         (CompletesStack(stream[i]) \/ RolledBack(stream[i])) /\ ~Stale(stream[i])

\* the run has ended in Succeeded or Failed
Ended == pc = "done" /\ err.kind \in {"nil", "updateFailed", "rolledBack"}

\* C19: with no page fetch failing and no cancellation, once the stream holds
\* a stack-level event of the run with status UPDATE_COMPLETE,
\* UPDATE_ROLLBACK_COMPLETE or ROLLBACK_FAILED that is not older than the
\* cutoff, the run eventually ends in Succeeded or Failed, in both variants.
C19_TerminalEventEndsRun ==
    ([](~cancelled) /\ [](~FetchFailed)) => (HasTerminal ~> Ended)

\* the run was ended by an event of the run the scan returned at
EndedByEvent == Ended /\ lastEvt # NoEvt /\ Outcome(lastEvt)

\* the run returned the error of the cancelled context
Cancelled == pc = "done" /\ err.kind = "ctx" /\ exit = 1

\* C20 as stated: once the cancellation is raised while the loop is polling,
\* the run eventually ends, and with the cancellation error unless a terminal
\* event of the run ended it first; it does not end in success otherwise, and a
\* parked loop returns on the cancellation at once.
C20_AsStated ==
    /\ (Polling /\ cancelled) ~> (Cancelled \/ EndedByEvent)
    /\ [][(pc = "blocked" /\ cancelled') => (pc' = "done" /\ err'.kind = "ctx")]_vars
    /\ []((pc = "done" /\ cancelled /\ err = NoErr) => CompletesStack(lastEvt))

\* C20 as amended: the run may also end with the error of a page fetch that
\* fails after the cancellation.
C20_CancellationEndsRun ==
    /\ (Polling /\ cancelled) ~> (Cancelled \/ EndedByEvent \/ FetchFailed)
    /\ [][(pc = "blocked" /\ cancelled') => (pc' = "done" /\ err'.kind = "ctx")]_vars
    /\ []((pc = "done" /\ cancelled /\ err = NoErr) => CompletesStack(lastEvt))

\* the run was cancelled after it had polled, with no event of the run in the
\* stream
C20_Witness ==
    /\ Cancelled /\ cancelled
    /\ calls.DescribeStackEvents = 1
    /\ \A i \in 1..Len(stream) : ~Outcome(stream[i])

====
